---- MODULE Spec2Model ----
(***************************************************************************)
(* Model of vocdoni/halo2-franchise-proof: the census Merkle tree          *)
(* (src/src/utils.rs, MerkleTree), the witness builder                     *)
(* (generate_circuit_inputs, generate_test_data) and the franchise         *)
(* relation (src/src/franchise.rs, FranchiseCircuit::synthesize).          *)
(*                                                                         *)
(* Field elements are integers modulo FpModulus, a scaled-down prime       *)
(* field.  Storage offsets are 0-based in the source and 1-based in TLA+   *)
(* sequences.  A Vec is held as a sequence of pages of PageSize elements,   *)
(* every page but the last one full, and read through len and at (0-based):*)
(* the finalized tree of depth DeepDepth has 2^DeepDepth - 1 nodes.        *)
(***************************************************************************)
EXTENDS Integers, Sequences, FiniteSets, TLC

(***************************************************************************)
(* Bounds of the model.                                                    *)
(***************************************************************************)
FpModulus == 13
MaxDepth == 3
MaxCalcs == 2
MaxSibling == 1
MaxDelta == 2
DeepDepth == 18
DeepLeaves == 65537
DeepWindow == 20
PageSize == 512

(***************************************************************************)
(* Program constants.                                                      *)
(***************************************************************************)
\* The path length test_franchise instantiates the relation with.
LVL == 3
\* 0xfffe, the mask witness applies to the index.
IndexMask == 65534
\* The smallest capacity a full Vec<Fp> grows to on push.
MinNonZeroCap == 4

(***************************************************************************)
(* The field and the opaque primitives.                                    *)
(***************************************************************************)
Fp == 0 .. (FpModulus - 1)

FpFrom(n) == n % FpModulus

FpAdd(a, b) == (a + b) % FpModulus

FpSub(a, b) == (a + FpModulus - b) % FpModulus

Pow5(x) ==
  LET x2 == (x * x) % FpModulus
      x4 == (x2 * x2) % FpModulus
  IN (x4 * x) % FpModulus

\* Two-to-one compression: order dependent, a permutation in each argument.
hash(first, second) ==
  (Pow5((first + 1) % FpModulus) + 2 * Pow5((second + 3) % FpModulus) + 4)
    % FpModulus

\* CondSwapChip::swap on the pair (a, b).
select(bit, a, b) == IF bit THEN <<b, a>> ELSE <<a, b>>

RECURSIVE BitAnd(_, _)
BitAnd(a, b) ==
  IF a = 0 \/ b = 0 THEN 0
  ELSE (a % 2) * (b % 2) + 2 * BitAnd(a \div 2, b \div 2)

(***************************************************************************)
(* State.                                                                  *)
(*   depth, nodes, cap : the MerkleTree (nodes is the Vec, cap its         *)
(*                       capacity)                                         *)
(*   calcs             : number of calc() calls made                       *)
(*   leaves            : history, the values of the successful inserts     *)
(*   op                : the last call on the tree and its outcome         *)
(*   circuit, path, nullifier, gen : the last generate_circuit_inputs call *)
(*   public, verdict, phase, tamper : the instance column handed to the    *)
(*                       prover, its answer, and mock_test's position      *)
(***************************************************************************)
VARIABLES depth, nodes, cap, calcs, leaves, op,
          circuit, path, nullifier, gen, public, verdict, phase, tamper

treeVars == <<depth, nodes, cap, calcs, leaves, op>>
circuitVars == <<circuit, path, nullifier, gen, public, verdict, phase, tamper>>
vars == <<depth, nodes, cap, calcs, leaves, op,
          circuit, path, nullifier, gen, public, verdict, phase, tamper>>

NoRet == <<>>
Call(name, arg, outcome, ret) ==
  [name |-> name, arg |-> arg, outcome |-> outcome, ret |-> ret]

(***************************************************************************)
(* Vec<Fp>.                                                                *)
(***************************************************************************)
Max(a, b) == IF a >= b THEN a ELSE b

Min(a, b) == IF a <= b THEN a ELSE b

\* Vec::len.
len(v) == IF Len(v) = 0 THEN 0 ELSE (Len(v) - 1) * PageSize + Len(v[Len(v)])

\* v[k], for k < len(v).
at(v, k) == v[(k \div PageSize) + 1][(k % PageSize) + 1]

\* Vec::push: the capacity doubles (at least MinNonZeroCap) when the Vec is full.
push(v, c, x) ==
  [nodes |-> IF Len(v) = 0 \/ Len(v[Len(v)]) = PageSize
             THEN Append(v, <<x>>)
             ELSE [v EXCEPT ![Len(v)] = Append(@, x)],
   cap |-> IF len(v) = c THEN Max(MinNonZeroCap, Max(2 * c, len(v) + 1)) ELSE c]

\* Vec::resize(size, Fp::zero()) of a shorter Vec, within its capacity.
resize(v, size) ==
  IF len(v) < size
  THEN [p \in 1 .. ((size + PageSize - 1) \div PageSize) |->
          [j \in 1 .. Min(PageSize, size - (p - 1) * PageSize) |->
             LET k == (p - 1) * PageSize + j - 1
             IN IF k < len(v) THEN at(v, k) ELSE 0]]
  ELSE v

(***************************************************************************)
(* MerkleTree (src/src/utils.rs).  Every operation is a function of the    *)
(* fields it reads and returns the fields it leaves behind, with           *)
(* outcome "ok" when the call returns and "abort" when it panics.          *)
(***************************************************************************)
\* MerkleTree::new: the capacity requested for the Vec.
new_capacity(d) == 2 * (2 ^ (d - 1)) - 1

insert_unchecked(ns, c, d, value) ==
  LET p == push(ns, c, value)
  IN [nodes |-> p.nodes, cap |-> p.cap, outcome |-> "ok", ret |-> len(p.nodes) - 1]

insert(ns, c, d, value) ==
  IF ~(len(ns) < 2 ^ (d - 1))
  THEN [nodes |-> ns, cap |-> c, outcome |-> "abort", ret |-> NoRet]
  ELSE LET p == push(ns, c, value)
       IN [nodes |-> p.nodes, cap |-> p.cap, outcome |-> "ok",
           ret |-> len(p.nodes) - 1]

calc_pair_swapped(ns, i) == hash(at(ns, i + 1), at(ns, i))

\* calc, lines 43-44: the node pushed at loop index i.
calc_pair(ns, i) == hash(at(ns, i), at(ns, i + 1))

\* One evaluation of the while loop of calc: the test, the two indexed reads
\* (which panic out of bounds), the push and the increment.
calc_step(s) ==
  IF s.pc # "loop" THEN s
  ELSE IF ~(s.i < s.cap - 1) THEN [s EXCEPT !.pc = "exit"]
  ELSE IF s.i + 1 >= len(s.nodes) THEN [s EXCEPT !.pc = "panic"]
  ELSE LET p == push(s.nodes, s.cap, calc_pair(s.nodes, s.i))
       IN [nodes |-> p.nodes, cap |-> p.cap, i |-> s.i + 2, pc |-> "loop"]

\* The loop run for at most n evaluations, split in halves so that the
\* evaluation depth is logarithmic in n.
RECURSIVE calc_loop(_, _)
calc_loop(s, n) ==
  IF n = 0 THEN s
  ELSE IF n = 1 THEN calc_step(s)
  ELSE LET h == n \div 2
           mid == calc_loop(s, h)
       IN IF mid.pc # "loop" THEN mid ELSE calc_loop(mid, n - h)

\* A push at loop index i = 2 * pushes reads offset i + 1 below the length,
\* so the loop ends within len + 1 evaluations.
calc(ns, c, d) ==
  LET padded == resize(ns, 2 ^ (d - 1))
      end == calc_loop([nodes |-> padded, cap |-> c, i |-> 0, pc |-> "loop"],
                       len(padded) + 1)
  IN [nodes |-> end.nodes, cap |-> end.cap,
      outcome |-> CASE end.pc = "exit" -> "ok"
                    [] end.pc = "panic" -> "abort"
                    [] OTHER -> "running",
      ret |-> NoRet]

\* nodes.len() - 1 underflows, or indexes out of bounds, on an empty Vec.
root(ns) ==
  IF len(ns) = 0 THEN [outcome |-> "abort", ret |-> NoRet]
  ELSE [outcome |-> "ok", ret |-> at(ns, len(ns) - 1)]

get(ns, index) ==
  IF index >= len(ns) THEN [outcome |-> "abort", ret |-> NoRet]
  ELSE [outcome |-> "ok", ret |-> at(ns, index)]

left_right_same(index) == BitAnd(index, 1)

\* witness, line 74.
left_right(index) == 1 - BitAnd(index, 1)

\* witness, line 76: the storage offset read at one level.
sibling_offset(base, index) == base + BitAnd(index, IndexMask) + left_right(index)

RECURSIVE witness_loop(_, _, _, _, _, _)
witness_loop(ns, d, n, base, index, siblings) ==
  IF n >= d - 1 THEN [outcome |-> "ok", ret |-> siblings]
  ELSE LET off == sibling_offset(base, index)
       IN IF off >= len(ns) THEN [outcome |-> "abort", ret |-> NoRet]
          ELSE witness_loop(ns, d, n + 1, base + 2 ^ (d - n - 1), index \div 2,
                            Append(siblings, <<at(ns, off), left_right(index) = 1>>))

witness(ns, d, index) == witness_loop(ns, d, 0, 0, index, <<>>)

RECURSIVE check_fold(_, _, _)
check_fold(h, siblings, k) ==
  IF k > Len(siblings) THEN h
  ELSE check_fold(IF siblings[k][2] THEN hash(h, siblings[k][1])
                                    ELSE hash(siblings[k][1], h),
                  siblings, k + 1)

check_witness(value, siblings, expected) == check_fold(value, siblings, 1) = expected

(***************************************************************************)
(* The witness builder (src/src/utils.rs).                                 *)
(***************************************************************************)
NoCircuit == [pri_index |-> <<>>, pri_siblings |-> <<>>, pri_secret_key |-> 0,
              pub_processid |-> <<0, 0>>, pub_votehash |-> 0]

secret_to_public_key(secret_key) == hash(secret_key, secret_key)

pub_nullifier_first_only(secret_key, process_id) ==
  hash(secret_key, hash(process_id[1], process_id[1]))

\* generate_circuit_inputs, lines 104-108.
pub_nullifier(secret_key, process_id) ==
  hash(secret_key, hash(process_id[1], process_id[2]))

direction_bit_same(p) == p

\* generate_circuit_inputs, line 114: pri_index[n] = !p.
direction_bit(p) == ~p

\* The arrays start as [Fp::zero(); LVL] and [false; LVL]; the loop writes one
\* entry per step of the witness and indexes out of bounds at step LVL.
generate_circuit_inputs(secret_key, process_id, vote_hash, w) ==
  IF Len(w) > LVL
  THEN [outcome |-> "abort", circuit |-> NoCircuit, nullifier |-> 0]
  ELSE [outcome |-> "ok",
        circuit |->
          [pri_index |-> [n \in 1 .. LVL |->
                            IF n <= Len(w) THEN direction_bit(w[n][2]) ELSE FALSE],
           pri_siblings |-> [n \in 1 .. LVL |->
                               IF n <= Len(w) THEN w[n][1] ELSE 0],
           pri_secret_key |-> secret_key,
           pub_processid |-> process_id,
           pub_votehash |-> vote_hash],
        nullifier |-> pub_nullifier(secret_key, process_id)]

\* generate_test_data, lines 136-148: the path and the root it leads to.
RECURSIVE test_data_loop(_, _, _)
test_data_loop(n, r, w) ==
  IF n >= LVL THEN [root |-> r, witness |-> w]
  ELSE LET direction == (n % 2 = 0)
           value == FpFrom(n)
           pair == IF direction THEN <<r, value>> ELSE <<value, r>>
       IN test_data_loop(n + 1, hash(pair[1], pair[2]),
                         Append(w, <<value, direction>>))

generate_test_data ==
  LET secret_key == FpFrom(8)
      process_id == <<FpFrom(6), FpFrom(7)>>
      vote_hash == FpFrom(1)
      public_key == secret_to_public_key(secret_key)
      t == test_data_loop(0, public_key, <<>>)
      g == generate_circuit_inputs(secret_key, process_id, vote_hash, t.witness)
  IN IF ~check_witness(public_key, t.witness, t.root) \/ g.outcome # "ok"
     THEN [outcome |-> "abort", circuit |-> NoCircuit, nullifier |-> 0,
           witness |-> t.witness, public |-> <<>>]
     ELSE [outcome |-> "ok", circuit |-> g.circuit, nullifier |-> g.nullifier,
           witness |-> t.witness,
           public |-> <<t.root, g.nullifier, vote_hash>>]

(***************************************************************************)
(* The relation (src/src/franchise.rs).                                    *)
(***************************************************************************)
\* FranchiseCircuit::hash: the Poseidon chip on two cells.
circuit_hash(values) == hash(values[1], values[2])

RECURSIVE merkle_tree_loop(_, _, _)
merkle_tree_loop(c, n, r) ==
  IF n > LVL THEN r
  ELSE LET leaf == c.pri_siblings[n]
           lr == select(c.pri_index[n], r, leaf)
       IN merkle_tree_loop(c, n + 1, circuit_hash(<<lr[1], lr[2]>>))

merkle_tree(c, r) == merkle_tree_loop(c, 1, r)

synthesize_no_votehash(c) ==
  LET secret_key == c.pri_secret_key
      public_key == circuit_hash(<<secret_key, secret_key>>)
      process_id_hash == circuit_hash(<<c.pub_processid[1], c.pub_processid[2]>>)
  IN << [cell |-> merkle_tree(c, public_key), row |-> 0],
        [cell |-> circuit_hash(<<secret_key, process_id_hash>>), row |-> 1] >>

\* synthesize: the cells it computes and the instance rows it constrains them to.
synthesize(c) ==
  LET process_id_0 == c.pub_processid[1]
      process_id_1 == c.pub_processid[2]
      secret_key == c.pri_secret_key
      vote_hash == c.pub_votehash
      public_key == circuit_hash(<<secret_key, secret_key>>)
      process_id_hash == circuit_hash(<<process_id_0, process_id_1>>)
      nullifier_cell == circuit_hash(<<secret_key, process_id_hash>>)
      root_cell == merkle_tree(c, public_key)
  IN << [cell |-> root_cell, row |-> 0],
        [cell |-> nullifier_cell, row |-> 1],
        [cell |-> vote_hash, row |-> 2] >>

\* MockProver::run(k, &circuit, vec![public]).verify(): every constrained cell
\* equals the instance value of its row.
mock_verify(c, instance) ==
  LET cs == synthesize(c)
  IN \A k \in 1 .. Len(cs) : instance[cs[k].row + 1] = cs[k].cell

(***************************************************************************)
(* The calls on the tree, one action each.                                 *)
(***************************************************************************)
LeafValues == {FpFrom(1), FpFrom(2)}

Insert(value) ==
  LET r == insert(nodes, cap, depth, value)
  IN /\ nodes' = r.nodes
     /\ cap' = r.cap
     /\ leaves' = IF r.outcome = "ok" THEN push(leaves, 0, value).nodes ELSE leaves
     /\ op' = Call("insert", value, r.outcome, r.ret)
     /\ UNCHANGED <<depth, calcs>>
     /\ UNCHANGED circuitVars

Calc ==
  /\ calcs < MaxCalcs
  /\ LET r == calc(nodes, cap, depth)
     IN /\ nodes' = r.nodes
        /\ cap' = r.cap
        /\ op' = Call("calc", NoRet, r.outcome, r.ret)
  /\ calcs' = calcs + 1
  /\ UNCHANGED <<depth, leaves>>
  /\ UNCHANGED circuitVars

RootCall ==
  LET r == root(nodes)
  IN /\ op' = Call("root", NoRet, r.outcome, r.ret)
     /\ UNCHANGED <<depth, nodes, cap, calcs, leaves>>
     /\ UNCHANGED circuitVars

GetCall(index) ==
  LET r == get(nodes, index)
  IN /\ op' = Call("get", index, r.outcome, r.ret)
     /\ UNCHANGED <<depth, nodes, cap, calcs, leaves>>
     /\ UNCHANGED circuitVars

WitnessCall(index) ==
  LET r == witness(nodes, depth, index)
  IN /\ op' = Call("witness", index, r.outcome, r.ret)
     /\ UNCHANGED <<depth, nodes, cap, calcs, leaves>>
     /\ UNCHANGED circuitVars

\* simple_mt_test, lines 170-171: check_witness(tree.get(n), witness, tree.root())
\* on the witness just taken for leaf n.
CheckWitnessCall ==
  /\ op.name = "witness"
  /\ op.outcome = "ok"
  /\ LET g == get(nodes, op.arg)
         r == root(nodes)
     IN op' = IF g.outcome = "ok" /\ r.outcome = "ok"
              THEN Call("check_witness", op.arg, "ok",
                        check_witness(g.ret, op.ret, r.ret))
              ELSE Call("check_witness", op.arg, "abort", NoRet)
  /\ UNCHANGED <<depth, nodes, cap, calcs, leaves>>
  /\ UNCHANGED circuitVars

CircuitIdle ==
  /\ circuit = NoCircuit
  /\ path = <<>>
  /\ nullifier = 0
  /\ gen = "none"
  /\ public = <<>>
  /\ verdict = "none"
  /\ phase = "idle"
  /\ tamper = <<>>

\* MerkleTree::new(depth) for each depth within the bound.
Init ==
  /\ depth \in 1 .. MaxDepth
  /\ nodes = <<>>
  /\ cap = new_capacity(depth)
  /\ calcs = 0
  /\ leaves = <<>>
  /\ op = Call("new", depth, "ok", NoRet)
  /\ CircuitIdle

LeafIndices == 0 .. (2 ^ (depth - 1) - 1)

Next ==
  \/ \E value \in LeafValues : Insert(value)
  \/ Calc
  \/ RootCall
  \/ \E index \in LeafIndices : GetCall(index)
  \/ \E index \in LeafIndices : WitnessCall(index)
  \/ CheckWitnessCall

Spec == Init /\ [][Next]_vars

\* The loop of calc always ends within the evaluations it is given.
CalcLoopEnds == op.outcome # "running"

(***************************************************************************)
(* A tree of depth DeepDepth as MerkleTree::new, DeepLeaves inserts (leaf  *)
(* i holds Fp::from(i + 1)) and one calc() leave it, and the calls made on *)
(* it once finalized, for the leaf indices around the last inserted one.   *)
(***************************************************************************)
DeepLeafSeq ==
  [p \in 1 .. ((DeepLeaves + PageSize - 1) \div PageSize) |->
     [j \in 1 .. Min(PageSize, DeepLeaves - (p - 1) * PageSize) |->
        FpFrom((p - 1) * PageSize + j)]]

InitDeep ==
  LET r == calc(DeepLeafSeq, new_capacity(DeepDepth), DeepDepth)
  IN /\ depth = DeepDepth
     /\ nodes = r.nodes
     /\ cap = r.cap
     /\ calcs = 1
     /\ leaves = DeepLeafSeq
     /\ op = Call("calc", NoRet, r.outcome, r.ret)
     /\ CircuitIdle

DeepIndices == (DeepLeaves - DeepWindow) .. (DeepLeaves + DeepWindow - 1)

NextDeep ==
  \/ \E value \in LeafValues : Insert(value)
  \/ RootCall
  \/ \E index \in DeepIndices : GetCall(index)
  \/ \E index \in DeepIndices : WitnessCall(index)
  \/ CheckWitnessCall

SpecDeep == InitDeep /\ [][NextDeep]_vars

(***************************************************************************)
(* The calls on the witness builder and the prover, as mock_test makes     *)
(* them: build, run, add to one public value, run, subtract it again.      *)
(***************************************************************************)
SecretKeys == {FpFrom(8), FpFrom(3)}

ProcessIds == {<<FpFrom(6), FpFrom(7)>>, <<FpFrom(7), FpFrom(6)>>,
               <<FpFrom(6), FpFrom(6)>>}

VoteHashes == {FpFrom(1)}

Paths ==
  UNION {[1 .. n -> (0 .. MaxSibling) \X BOOLEAN] : n \in 0 .. (LVL + 1)}

\* An assignment is built once per proof attempt, from the idle state.
GenerateTestData ==
  LET g == generate_test_data
  IN /\ gen = "none"
     /\ gen' = g.outcome
     /\ circuit' = g.circuit
     /\ nullifier' = g.nullifier
     /\ path' = g.witness
     /\ public' = g.public
     /\ verdict' = "none"
     /\ phase' = IF g.outcome = "ok" THEN "base" ELSE "idle"
     /\ tamper' = <<>>
     /\ UNCHANGED treeVars

GenerateCircuitInputs ==
  /\ gen = "none"
  /\ \E secret_key \in SecretKeys, process_id \in ProcessIds,
        vote_hash \in VoteHashes, w \in Paths :
       LET g == generate_circuit_inputs(secret_key, process_id, vote_hash, w)
       IN /\ gen' = g.outcome
          /\ circuit' = g.circuit
          /\ nullifier' = g.nullifier
          /\ path' = w
  /\ public' = <<>>
  /\ verdict' = "none"
  /\ phase' = "idle"
  /\ tamper' = <<>>
  /\ UNCHANGED treeVars

\* The caller's public values for the assignment just built: any root, and
\* the nullifier and the vote hash either as built or off by one.
SetPublic ==
  /\ gen = "ok"
  /\ public = <<>>
  /\ \E x0 \in Fp, x1 \in {nullifier, FpAdd(nullifier, 1)},
        x2 \in {circuit.pub_votehash, FpAdd(circuit.pub_votehash, 1)} :
       public' = <<x0, x1, x2>>
  /\ verdict' = "none"
  /\ phase' = "base"
  /\ tamper' = <<>>
  /\ UNCHANGED <<circuit, path, nullifier, gen>>
  /\ UNCHANGED treeVars

MockRun ==
  /\ gen = "ok"
  /\ Len(public) = 3
  /\ verdict = "none"
  /\ verdict' = IF mock_verify(circuit, public) THEN "accept" ELSE "reject"
  /\ UNCHANGED <<circuit, path, nullifier, gen, public, phase, tamper>>
  /\ UNCHANGED treeVars

\* mock_test, line 275: public[n] += delta, on a triple the prover accepted.
Tamper(n, delta) ==
  /\ verdict = "accept"
  /\ phase \in {"base", "restored"}
  /\ public' = [public EXCEPT ![n] = FpAdd(@, delta)]
  /\ tamper' = <<n, delta>>
  /\ phase' = "tampered"
  /\ verdict' = "none"
  /\ UNCHANGED <<circuit, path, nullifier, gen>>
  /\ UNCHANGED treeVars

\* mock_test, line 280: public[n] -= delta, after the run on the changed triple.
Restore ==
  /\ phase = "tampered"
  /\ verdict # "none"
  /\ public' = [public EXCEPT ![tamper[1]] = FpSub(@, tamper[2])]
  /\ tamper' = <<>>
  /\ phase' = "restored"
  /\ verdict' = "none"
  /\ UNCHANGED <<circuit, path, nullifier, gen>>
  /\ UNCHANGED treeVars

InitCircuit ==
  /\ depth = 1
  /\ nodes = <<>>
  /\ cap = new_capacity(1)
  /\ calcs = 0
  /\ leaves = <<>>
  /\ op = Call("new", 1, "ok", NoRet)
  /\ CircuitIdle

NextCircuit ==
  \/ GenerateTestData
  \/ GenerateCircuitInputs
  \/ SetPublic
  \/ MockRun
  \/ \E n \in 1 .. 3, delta \in 1 .. MaxDelta : Tamper(n, delta)
  \/ Restore

SpecCircuit == InitCircuit /\ [][NextCircuit]_vars

(***************************************************************************)
(* Properties of the tree.                                                 *)
(***************************************************************************)
Capacity == 2 ^ (depth - 1)

\* Storage offset at which level n starts: sum of 2^(d-k-1) for k < n.
RECURSIVE LevelStart(_, _)
LevelStart(d, n) == IF n = 0 THEN 0 ELSE LevelStart(d, n - 1) + 2 ^ (d - n)

\* Index within level n of the ancestor of leaf i.
Ancestor(i, n) == i \div (2 ^ n)

\* C2: on a tree finalized by one calc(), check_witness(get(i), witness(i),
\* root()) returns true for every inserted leaf index i.
C2_RoundTrip ==
  (calcs = 1 /\ op.name = "check_witness" /\ op.arg < len(leaves))
    => (op.outcome = "ok" /\ op.ret = TRUE)

\* C5: insert appends the value as the next leaf and returns its insertion
\* index while fewer than 2^(d-1) leaves are stored, and aborts storing
\* nothing otherwise; the inserted values never exceed 2^(d-1) and stay in
\* storage in call order.
C5_InsertCapacity ==
  /\ [](/\ len(leaves) <= Capacity
        /\ len(nodes) >= len(leaves)
        /\ \A k \in 0 .. (len(leaves) - 1) : at(nodes, k) = at(leaves, k)
        /\ calcs = 0 => len(nodes) = len(leaves))
  /\ [][op'.name = "insert" =>
          IF len(nodes) < Capacity
          THEN /\ op'.outcome = "ok"
               /\ op'.ret = len(leaves)
               /\ op'.ret = len(nodes)
               /\ len(nodes') = len(nodes) + 1
               /\ at(nodes', len(nodes)) = op'.arg
               /\ \A k \in 0 .. (len(nodes) - 1) : at(nodes', k) = at(nodes, k)
               /\ len(leaves') = len(leaves) + 1
               /\ at(leaves', len(leaves)) = op'.arg
          ELSE /\ op'.outcome = "abort"
               /\ nodes' = nodes
               /\ leaves' = leaves]_vars

\* An insert refused at capacity, before calc().
C5_Witness ==
  /\ op.name = "insert"
  /\ op.outcome = "abort"
  /\ calcs = 0
  /\ depth >= 2
  /\ len(leaves) = Capacity

\* C6: root() and witness(index) abort on a tree on which calc() has not run.
C6_UninitializedReadAborts ==
  (calcs = 0 /\ op.name \in {"root", "witness"}) => op.outcome = "abort"

\* C8: a call on the tree that aborts leaves the stored nodes as they were.
C8_NoPartialSuccess == [][op'.outcome = "abort" => nodes' = nodes]_vars

C10_CalcPostState ==
  calcs = 1 =>
    /\ len(nodes) = 2 ^ depth - 1
    /\ \A i \in 0 .. (len(leaves) - 1) :
         /\ at(nodes, i) = at(leaves, i)
         /\ get(nodes, i) = [outcome |-> "ok", ret |-> at(leaves, i)]
    /\ \A i \in len(leaves) .. (Capacity - 1) : at(nodes, i) = 0
    /\ \A j \in 0 .. (Capacity - 2) :
         at(nodes, Capacity + j) = hash(at(nodes, 2 * j), at(nodes, 2 * j + 1))
    /\ root(nodes) = [outcome |-> "ok", ret |-> at(nodes, 2 ^ depth - 2)]
    /\ depth = 1 => root(nodes).ret = at(nodes, 0)

\* calc() has just padded a partly filled tree of depth 3 and hashed it.
C10_Witness ==
  /\ calcs = 1
  /\ op.name = "calc"
  /\ op.outcome = "ok"
  /\ depth = 3
  /\ len(leaves) \in 1 .. (Capacity - 1)
  /\ \E k \in 0 .. (len(leaves) - 1) : at(leaves, k) # 0

(***************************************************************************)
(* Properties of the relation and of the witness builder.                  *)
(***************************************************************************)
\* The root the relation is meant to re-derive after n steps of the path,
\* starting from hash(sk, sk).
RECURSIVE DerivedRoot(_, _)
DerivedRoot(c, n) ==
  IF n = 0 THEN hash(c.pri_secret_key, c.pri_secret_key)
  ELSE LET prev == DerivedRoot(c, n - 1)
       IN IF c.pri_index[n] THEN hash(c.pri_siblings[n], prev)
                            ELSE hash(prev, c.pri_siblings[n])

\* C1: the prover accepts (x0, x1, x2) iff x0 is the root re-derived along the
\* path, x1 is hash(sk, hash(processId)) and x2 is the vote hash; an accepted
\* triple with a nonzero element added to one value is rejected, and accepted
\* again once the element is subtracted.
C1_RelationAccepts ==
  (gen = "ok" /\ verdict # "none") =>
    /\ (verdict = "accept") <=>
         /\ public[1] = DerivedRoot(circuit, LVL)
         /\ public[2] = hash(circuit.pri_secret_key,
                             hash(circuit.pub_processid[1], circuit.pub_processid[2]))
         /\ public[3] = circuit.pub_votehash
    /\ phase = "tampered" => verdict = "reject"
    /\ phase = "restored" => verdict = "accept"

\* A triple accepted again after one of its values was changed and restored.
C1_Witness ==
  /\ gen = "ok"
  /\ phase = "restored"
  /\ verdict = "accept"
  /\ \E n \in 1 .. LVL : circuit.pri_index[n]
  /\ \E n \in 1 .. LVL : ~circuit.pri_index[n]

\* C3: for a path of exactly LVL steps, the root merkle_tree derives from the
\* built assignment equals r iff check_witness(hash(sk, sk), path, r) holds.
C3_RootMatchesCheckWitness ==
  (gen = "ok" /\ Len(path) = LVL) =>
    \A r \in Fp :
      (merkle_tree(circuit, secret_to_public_key(circuit.pri_secret_key)) = r)
        <=> check_witness(hash(circuit.pri_secret_key, circuit.pri_secret_key),
                          path, r)

\* An assignment built from a path of LVL steps with flags of both kinds.
C3_Witness ==
  /\ gen = "ok"
  /\ Len(path) = LVL
  /\ \E n \in 1 .. LVL : path[n][2]
  /\ \E n \in 1 .. LVL : ~path[n][2]

\* Two inputs of the compression function with the same output.
Collides(a, b) == a # b /\ hash(a[1], a[2]) = hash(b[1], b[2])

\* C4: for the same secret key, another processId pair gives another
\* nullifier, from the builder and inside the relation, unless the
\* compression function collides on the pairs or on the nullifier inputs.
C4_NullifierUnique ==
  gen = "ok" =>
    \A q \in ProcessIds :
      LET sk == circuit.pri_secret_key
          p == circuit.pub_processid
          other == generate_circuit_inputs(sk, q, circuit.pub_votehash, path)
      IN q # p =>
           /\ nullifier = synthesize(circuit)[2].cell
           /\ (\/ other.nullifier = nullifier
               \/ synthesize(other.circuit)[2].cell = synthesize(circuit)[2].cell)
                => \/ Collides(p, q)
                   \/ Collides(<<sk, hash(p[1], p[2])>>, <<sk, hash(q[1], q[2])>>)

\* An assignment whose nullifier differs from that of another processId pair.
C4_Witness ==
  /\ gen = "ok"
  /\ \E q \in ProcessIds :
       /\ q # circuit.pub_processid
       /\ pub_nullifier(circuit.pri_secret_key, q) # nullifier

\* C7: generate_circuit_inputs returns an assignment only for a path of
\* exactly LVL steps.
C7_PathLengthChecked == gen = "ok" => Len(path) = LVL

====
